---- MODULE Spec2Model ----
(***************************************************************************)
(* WebSocket opening handshake of actix-web (src/ws/mod.rs):               *)
(* verify_handshake, handshake_response, handshake and the mapping of      *)
(* HandshakeError to an HTTP failure response.                             *)
(*                                                                         *)
(* Header values are byte sequences (http::HeaderValue), a header map is a *)
(* function from the names that are present to their value, an Option is a *)
(* sequence of length 0 (None) or 1 (Some).                                *)
(***************************************************************************)
EXTENDS Integers, Sequences, FiniteSets, TLC

\* Number of calls made on one request.
MaxCalls == 2

----------------------------------------------------------------------------
(* Header names and literals of the code *)

UPGRADE == "upgrade"
SEC_WEBSOCKET_VERSION == "sec-websocket-version"
SEC_WEBSOCKET_KEY == "sec-websocket-key"
SEC_WEBSOCKET_ACCEPT == "sec-websocket-accept"
TRANSFER_ENCODING == "transfer-encoding"
ALLOW == "allow"

GET == "GET"
Methods == {"GET", "POST", "HEAD"}

SWITCHING_PROTOCOLS == 101
BAD_REQUEST == 400
METHOD_NOT_ALLOWED == 405

\* "websocket", the pattern searched in the Upgrade header
WEBSOCKET_PATTERN ==
    <<119, 101, 98, 115, 111, 99, 107, 101, 116>>

\* "13", "8", "7": the supported versions
VER_13 == <<49, 51>>
VER_8 == <<56>>
VER_7 == <<55>>

\* "258EAFA5-E914-47DA-95CA-C5AB0DC85B11"
WS_GUID ==
    <<50, 53, 56, 69, 65, 70, 65, 53, 45, 69, 57, 49, 52, 45, 52, 55, 68,
      65, 45, 57, 53, 67, 65, 45, 67, 53, 65, 66, 48, 68, 67, 56, 53, 66,
      49, 49>>

----------------------------------------------------------------------------
(* Header values the requests are drawn from *)

\* "WebSocket"
UPG_WebSocket == <<87, 101, 98, 83, 111, 99, 107, 101, 116>>
\* "WEBSOCKET"
UPG_WEBSOCKET == <<87, 69, 66, 83, 79, 67, 75, 69, 84>>
\* "h2c, websocket"
UPG_h2c_websocket ==
    <<104, 50, 99, 44, 32, 119, 101, 98, 115, 111, 99, 107, 101, 116>>
\* "keep-alive"
UPG_keep_alive == <<107, 101, 101, 112, 45, 97, 108, 105, 118, 101>>
\* "test"
UPG_test == <<116, 101, 115, 116>>
\* "websocke"
UPG_websocke == <<119, 101, 98, 115, 111, 99, 107, 101>>
\* "websocket" followed by the byte 0xFF: a legal header value that is not
\* visible ASCII
UPG_unreadable == <<119, 101, 98, 115, 111, 99, 107, 101, 116, 255>>

UpgradeValues ==
    { WEBSOCKET_PATTERN, UPG_WebSocket, UPG_WEBSOCKET, UPG_h2c_websocket,
      UPG_keep_alive, UPG_test, UPG_websocke, UPG_unreadable, <<>> }

\* "5", "013", "1"
VER_5 == <<53>>
VER_013 == <<48, 49, 51>>
VER_1 == <<49>>

VersionValues == { VER_13, VER_8, VER_7, VER_5, VER_013, VER_1, <<>> }

\* "dGhlIHNhbXBsZSBub25jZQ=="
KEY_sample ==
    <<100, 71, 104, 108, 73, 72, 78, 104, 98, 88, 66, 115, 90, 83, 66, 117,
      98, 50, 53, 106, 90, 81, 61, 61>>
KEY_binary == <<255, 254>>

KeyValues == { VER_13, KEY_sample, KEY_binary, <<>> }

Opt(S) == { <<>> } \cup { <<v>> : v \in S }

HeaderNames(u, v, k) ==
    (IF u # <<>> THEN {UPGRADE} ELSE {})
        \cup (IF v # <<>> THEN {SEC_WEBSOCKET_VERSION} ELSE {})
        \cup (IF k # <<>> THEN {SEC_WEBSOCKET_KEY} ELSE {})

HeaderMapOf(u, v, k) ==
    [n \in HeaderNames(u, v, k) |->
        IF n = UPGRADE THEN u[1]
        ELSE IF n = SEC_WEBSOCKET_VERSION THEN v[1]
        ELSE k[1]]

Requests ==
    { [method |-> m, headers |-> HeaderMapOf(u, v, k), upgrade |-> c] :
        m \in Methods, u \in Opt(UpgradeValues), v \in Opt(VersionValues),
        k \in Opt(KeyValues), c \in BOOLEAN }

----------------------------------------------------------------------------
(* The collaborators' operations *)

\* HeaderMap::get
get(headers, name) ==
    IF name \in DOMAIN headers THEN <<headers[name]>> ELSE <<>>

\* HeaderMap::contains_key
contains_key(headers, name) == name \in DOMAIN headers

\* HeaderValue::to_str: the text of a value of visible ASCII, else an error
is_visible_ascii(b) == (b >= 32 /\ b < 127) \/ b = 9

to_str(hdr) ==
    IF \A i \in 1..Len(hdr) : is_visible_ascii(hdr[i]) THEN <<hdr>> ELSE <<>>

\* str::to_lowercase on text that to_str has found to be ASCII
to_lowercase(s) ==
    [i \in 1..Len(s) |-> IF s[i] >= 65 /\ s[i] <= 90 THEN s[i] + 32 ELSE s[i]]

\* str::contains
contains(s, pat) ==
    \E off \in 0..(Len(s) - Len(pat)) :
        \A i \in 1..Len(pat) : s[off + i] = pat[i]

\* proto::hash_key: base64(SHA1(key ++ GUID)), kept symbolic
hash_key(key) == [base64_sha1 |-> key \o WS_GUID]

\* Response::build, ResponseBuilder::header / upgrade / reason
build(status) == [status |-> status, reason |-> "", headers |-> <<>>]

header(b, name, value) ==
    [b EXCEPT !.headers =
        [n \in (DOMAIN b.headers) \cup {name} |->
            IF n = name THEN value ELSE b.headers[n]]]

upgrade(b, value) == header(b, UPGRADE, value)

reason(b, text) == [b EXCEPT !.reason = text]

----------------------------------------------------------------------------
(* Outcomes of a call: a returned value (Ok), a returned error (Err) or a   *)
(* panic that aborts the call.  steps lists what the call evaluated.        *)

HandshakeErrors ==
    { "GetMethodRequired", "NoWebsocketUpgrade", "NoConnectionUpgrade",
      "NoVersionHeader", "UnsupportedVersion", "BadWebsocketKey" }

Ok(resp, steps) == [kind |-> "Ok", err |-> <<>>, resp |-> resp, steps |-> steps]

Err(e, steps) == [kind |-> "Err", err |-> <<e>>, resp |-> <<>>, steps |-> steps]

Panic(steps) == [kind |-> "Panic", err |-> <<>>, resp |-> <<>>, steps |-> steps]

----------------------------------------------------------------------------
(* impl ResponseError for HandshakeError *)

\* error_response with the reason of UnsupportedVersion pasted into the
\* BadWebsocketKey arm
error_response_shared_reason(e) ==
    CASE e = "GetMethodRequired" ->
            header(build(METHOD_NOT_ALLOWED), ALLOW, "GET")
      [] e = "NoWebsocketUpgrade" ->
            reason(build(BAD_REQUEST), "No WebSocket UPGRADE header found")
      [] e = "NoConnectionUpgrade" ->
            reason(build(BAD_REQUEST), "No CONNECTION upgrade")
      [] e = "NoVersionHeader" ->
            reason(build(BAD_REQUEST), "Websocket version header is required")
      [] e = "UnsupportedVersion" ->
            reason(build(BAD_REQUEST), "Unsupported version")
      [] e = "BadWebsocketKey" ->
            reason(build(BAD_REQUEST), "Unsupported version")

error_response(e) ==
    CASE e = "GetMethodRequired" ->
            header(build(METHOD_NOT_ALLOWED), ALLOW, "GET")
      [] e = "NoWebsocketUpgrade" ->
            reason(build(BAD_REQUEST), "No WebSocket UPGRADE header found")
      [] e = "NoConnectionUpgrade" ->
            reason(build(BAD_REQUEST), "No CONNECTION upgrade")
      [] e = "NoVersionHeader" ->
            reason(build(BAD_REQUEST), "Websocket version header is required")
      [] e = "UnsupportedVersion" ->
            reason(build(BAD_REQUEST), "Unsupported version")
      [] e = "BadWebsocketKey" ->
            reason(build(BAD_REQUEST), "Handshake error")

----------------------------------------------------------------------------
(* verify_handshake *)

\* has_hdr without the to_lowercase
has_hdr_case_sensitive(req) ==
    LET hdr == get(req.headers, UPGRADE) IN
    IF hdr # <<>>
    THEN LET s == to_str(hdr[1]) IN
         IF s # <<>>
         THEN contains(s[1], WEBSOCKET_PATTERN)
         ELSE FALSE
    ELSE FALSE

\* Check for "UPGRADE" to websocket header
has_hdr(req) ==
    LET hdr == get(req.headers, UPGRADE) IN
    IF hdr # <<>>
    THEN LET s == to_str(hdr[1]) IN
         IF s # <<>>
         THEN contains(to_lowercase(s[1]), WEBSOCKET_PATTERN)
         ELSE FALSE
    ELSE FALSE

\* supported_ver that knows version 13 only
supported_ver_13_only(req) ==
    LET hdr == get(req.headers, SEC_WEBSOCKET_VERSION) IN
    IF hdr # <<>>
    THEN hdr[1] = VER_13
    ELSE FALSE

\* check supported version
supported_ver(req) ==
    LET hdr == get(req.headers, SEC_WEBSOCKET_VERSION) IN
    IF hdr # <<>>
    THEN hdr[1] = VER_13 \/ hdr[1] = VER_8 \/ hdr[1] = VER_7
    ELSE FALSE

\* verify_handshake with the connection-upgrade check moved before the
\* Upgrade header check
verify_handshake_flag_first(req) ==
    IF req.method # GET
    THEN Err("GetMethodRequired", <<"method">>)
    ELSE IF ~req.upgrade
    THEN Err("NoConnectionUpgrade", <<"method", "connection_upgrade">>)
    ELSE IF ~has_hdr(req)
    THEN Err("NoWebsocketUpgrade",
             <<"method", "connection_upgrade", "upgrade_header">>)
    ELSE IF ~contains_key(req.headers, SEC_WEBSOCKET_VERSION)
    THEN Err("NoVersionHeader",
             <<"method", "upgrade_header", "connection_upgrade",
               "version_present">>)
    ELSE IF ~supported_ver(req)
    THEN Err("UnsupportedVersion",
             <<"method", "upgrade_header", "connection_upgrade",
               "version_present", "version_value">>)
    ELSE IF ~contains_key(req.headers, SEC_WEBSOCKET_KEY)
    THEN Err("BadWebsocketKey",
             <<"method", "upgrade_header", "connection_upgrade",
               "version_present", "version_value", "key_present">>)
    ELSE Ok(<<>>,
            <<"method", "upgrade_header", "connection_upgrade",
              "version_present", "version_value", "key_present">>)

\* verify_handshake without the final Sec-WebSocket-Key check
verify_handshake_no_key_check(req) ==
    IF req.method # GET
    THEN Err("GetMethodRequired", <<"method">>)
    ELSE IF ~has_hdr(req)
    THEN Err("NoWebsocketUpgrade", <<"method", "upgrade_header">>)
    ELSE IF ~req.upgrade
    THEN Err("NoConnectionUpgrade",
             <<"method", "upgrade_header", "connection_upgrade">>)
    ELSE IF ~contains_key(req.headers, SEC_WEBSOCKET_VERSION)
    THEN Err("NoVersionHeader",
             <<"method", "upgrade_header", "connection_upgrade",
               "version_present">>)
    ELSE IF ~supported_ver(req)
    THEN Err("UnsupportedVersion",
             <<"method", "upgrade_header", "connection_upgrade",
               "version_present", "version_value">>)
    ELSE Ok(<<>>,
            <<"method", "upgrade_header", "connection_upgrade",
              "version_present", "version_value">>)

verify_handshake(req) ==
    IF req.method # GET
    THEN Err("GetMethodRequired", <<"method">>)
    ELSE IF ~has_hdr(req)
    THEN Err("NoWebsocketUpgrade", <<"method", "upgrade_header">>)
    ELSE IF ~req.upgrade
    THEN Err("NoConnectionUpgrade",
             <<"method", "upgrade_header", "connection_upgrade">>)
    ELSE IF ~contains_key(req.headers, SEC_WEBSOCKET_VERSION)
    THEN Err("NoVersionHeader",
             <<"method", "upgrade_header", "connection_upgrade",
               "version_present">>)
    ELSE IF ~supported_ver(req)
    THEN Err("UnsupportedVersion",
             <<"method", "upgrade_header", "connection_upgrade",
               "version_present", "version_value">>)
    ELSE IF ~contains_key(req.headers, SEC_WEBSOCKET_KEY)
    THEN Err("BadWebsocketKey",
             <<"method", "upgrade_header", "connection_upgrade",
               "version_present", "version_value", "key_present">>)
    ELSE Ok(<<>>,
            <<"method", "upgrade_header", "connection_upgrade",
              "version_present", "version_value", "key_present">>)

----------------------------------------------------------------------------
(* handshake_response: unwrap() of an absent key panics *)

\* handshake_response that hashes the Sec-WebSocket-Version value
handshake_response_hashes_version(req) ==
    LET key == get(req.headers, SEC_WEBSOCKET_VERSION) IN
    IF key = <<>>
    THEN Panic(<<"handshake_response">>)
    ELSE Ok(<<header(
                header(
                  upgrade(build(SWITCHING_PROTOCOLS), "websocket"),
                  TRANSFER_ENCODING, "chunked"),
                SEC_WEBSOCKET_ACCEPT, hash_key(key[1]))>>,
            <<"handshake_response">>)

\* handshake_response with unwrap_or_default() in place of unwrap()
handshake_response_default_key(req) ==
    LET key == get(req.headers, SEC_WEBSOCKET_KEY) IN
    Ok(<<header(
          header(
            upgrade(build(SWITCHING_PROTOCOLS), "websocket"),
            TRANSFER_ENCODING, "chunked"),
          SEC_WEBSOCKET_ACCEPT,
          hash_key(IF key = <<>> THEN <<>> ELSE key[1]))>>,
       <<"handshake_response">>)

handshake_response(req) ==
    LET key == get(req.headers, SEC_WEBSOCKET_KEY) IN
    IF key = <<>>
    THEN Panic(<<"handshake_response">>)
    ELSE Ok(<<header(
                header(
                  upgrade(build(SWITCHING_PROTOCOLS), "websocket"),
                  TRANSFER_ENCODING, "chunked"),
                SEC_WEBSOCKET_ACCEPT, hash_key(key[1]))>>,
            <<"handshake_response">>)

----------------------------------------------------------------------------
(* handshake: verify_handshake(req)?; Ok(handshake_response(req)) *)

\* handshake that builds the response before it looks at the verdict
handshake_eager(req) ==
    LET r == handshake_response(req)
        v == verify_handshake(req)
    IN
    IF r.kind = "Panic"
    THEN Panic(<<"handshake_response">>)
    ELSE IF v.kind = "Err"
    THEN Err(v.err[1], <<"handshake_response", "verify_handshake">>)
    ELSE Ok(r.resp, <<"handshake_response", "verify_handshake">>)

handshake(req) ==
    LET v == verify_handshake(req) IN
    IF v.kind = "Err"
    THEN Err(v.err[1], <<"verify_handshake">>)
    ELSE LET r == handshake_response(req) IN
         IF r.kind = "Panic"
         THEN Panic(<<"verify_handshake", "handshake_response">>)
         ELSE Ok(r.resp, <<"verify_handshake", "handshake_response">>)

----------------------------------------------------------------------------
(* State: the request under test and the calls made on it so far *)

VARIABLES req, calls

vars == <<req, calls>>

Call(fn, res) == [fn |-> fn, res |-> res]

Last == calls[Len(calls)]

Init ==
    /\ req \in Requests
    /\ calls = <<>>

CallVerifyHandshake ==
    /\ Len(calls) < MaxCalls
    /\ calls' = Append(calls, Call("verify_handshake", verify_handshake(req)))
    /\ UNCHANGED req

\* handshake_response that takes the key out of the request's header map
CallHandshakeResponse_takes_key ==
    /\ Len(calls) < MaxCalls
    /\ calls' = Append(calls, Call("handshake_response", handshake_response(req)))
    /\ req' = [req EXCEPT !.headers =
                  [n \in (DOMAIN req.headers) \ {SEC_WEBSOCKET_KEY} |->
                      req.headers[n]]]

CallHandshakeResponse ==
    /\ Len(calls) < MaxCalls
    /\ calls' = Append(calls, Call("handshake_response", handshake_response(req)))
    /\ UNCHANGED req

CallHandshake ==
    /\ Len(calls) < MaxCalls
    /\ calls' = Append(calls, Call("handshake", handshake(req)))
    /\ UNCHANGED req

\* The error a call returned is turned into its HTTP failure response
CallErrorResponse ==
    /\ Len(calls) < MaxCalls
    /\ calls # <<>>
    /\ Last.res.kind = "Err"
    /\ calls' = Append(calls,
            Call("error_response",
                 Ok(<<error_response(Last.res.err[1])>>, Last.res.err)))
    /\ UNCHANGED req

Next ==
    \/ CallVerifyHandshake
    \/ CallHandshakeResponse
    \/ CallHandshake
    \/ CallErrorResponse

Spec == Init /\ [][Next]_vars

----------------------------------------------------------------------------
(* Vocabulary of the properties, stated on the request alone *)

CallsOf(fn) == { i \in 1..Len(calls) : calls[i].fn = fn }

HasKey == SEC_WEBSOCKET_KEY \in DOMAIN req.headers
HasVersion == SEC_WEBSOCKET_VERSION \in DOMAIN req.headers
HasUpgradeHeader == UPGRADE \in DOMAIN req.headers

FoldByte(b) == IF b \in 65..90 THEN b + 32 ELSE b

\* value contains the (lower-case) pattern, letters compared without case
ContainsIgnoreCase(value, pat) ==
    \E off \in 0..(Len(value) - Len(pat)) :
        \A i \in 1..Len(pat) : FoldByte(value[off + i]) = pat[i]

\* value can be read as text: visible ASCII and tab only
Readable(value) ==
    \A i \in 1..Len(value) : value[i] \in (32..126) \cup {9}

UpgradeNamesWebsocket ==
    /\ HasUpgradeHeader
    /\ ContainsIgnoreCase(req.headers[UPGRADE], WEBSOCKET_PATTERN)

UpgradeReadsWebsocket ==
    /\ UpgradeNamesWebsocket
    /\ Readable(req.headers[UPGRADE])

VersionSupported ==
    /\ HasVersion
    /\ req.headers[SEC_WEBSOCKET_VERSION] \in { <<49, 51>>, <<56>>, <<55>> }

CheckOrder ==
    <<"method", "upgrade_header", "connection_upgrade", "version_present",
      "version_value", "key_present">>

CheckError ==
    <<"GetMethodRequired", "NoWebsocketUpgrade", "NoConnectionUpgrade",
      "NoVersionHeader", "UnsupportedVersion", "BadWebsocketKey">>

CheckPasses(n) ==
    CASE n = 1 -> req.method = "GET"
      [] n = 2 -> UpgradeReadsWebsocket
      [] n = 3 -> req.upgrade
      [] n = 4 -> HasVersion
      [] n = 5 -> VersionSupported
      [] n = 6 -> HasKey

FailingChecks == { n \in 1..6 : ~CheckPasses(n) }

FirstFailing == CHOOSE n \in FailingChecks : \A m \in FailingChecks : n <= m

----------------------------------------------------------------------------
\* C1: verify_handshake evaluates its checks in the order method, Upgrade
\* header, connection-upgrade flag, version presence, version value, key
\* presence, stops at the first check that fails and returns that check's
\* error whatever the later checks would say; a request whose method is not
\* GET yields GetMethodRequired for every combination of headers and flag.
C1_FirstFailingCheck ==
    \A i \in CallsOf("verify_handshake") :
        LET res == calls[i].res IN
        /\ FailingChecks # {} =>
              /\ res.kind = "Err"
              /\ res.err = <<CheckError[FirstFailing]>>
              /\ res.steps = SubSeq(CheckOrder, 1, FirstFailing)
        /\ FailingChecks = {} =>
              /\ res.kind = "Ok"
              /\ res.steps = CheckOrder
        /\ req.method # "GET" => res.err = <<"GetMethodRequired">>

\* the method check failed on a request on which some later checks would
\* fail too and the others would pass
C1_Witness ==
    /\ CallsOf("verify_handshake") # {}
    /\ FailingChecks = {1, 3, 5}
    /\ Last.res.err = <<"GetMethodRequired">>

----------------------------------------------------------------------------
\* C2 (as stated): verify_handshake returns Ok exactly when the method is
\* GET, the Upgrade header is present and contains "websocket" without
\* regard to case, the connection-upgrade flag is set, the version is
\* present and equal to "13", "8" or "7", and the key is present.
C2_OkIffStated ==
    \A i \in CallsOf("verify_handshake") :
        calls[i].res.kind = "Ok" <=>
            /\ req.method = "GET"
            /\ UpgradeNamesWebsocket
            /\ req.upgrade
            /\ VersionSupported
            /\ HasKey

\* C2 (amended): as above, with the Upgrade value also required to be
\* readable as text (visible ASCII); and the value of the key, the empty
\* value included, never changes the outcome.
C2_OkIff ==
    \A i \in CallsOf("verify_handshake") :
        /\ calls[i].res.kind = "Ok" <=>
              /\ req.method = "GET"
              /\ UpgradeReadsWebsocket
              /\ req.upgrade
              /\ VersionSupported
              /\ HasKey
        /\ HasKey =>
              \A k \in KeyValues :
                  verify_handshake(
                      [req EXCEPT !.headers[SEC_WEBSOCKET_KEY] = k])
                    = calls[i].res

\* verify_handshake accepted a request whose key is empty and whose
\* version is not 13
C2_Witness ==
    /\ CallsOf("verify_handshake") # {}
    /\ Last.res.kind = "Ok"
    /\ HasKey
    /\ req.headers[SEC_WEBSOCKET_KEY] = <<>>
    /\ req.headers[SEC_WEBSOCKET_VERSION] = <<56>>

----------------------------------------------------------------------------
\* C3: handshake is the composition of verify_handshake and
\* handshake_response: when verify_handshake returns Err(e), handshake
\* returns Err(e) and handshake_response is not evaluated; when it returns
\* Ok, handshake returns Ok of the response handshake_response builds.
C3_Composition ==
    \A i \in CallsOf("handshake") :
        LET res == calls[i].res
            v == verify_handshake(req)
        IN
        /\ v.kind = "Err" =>
              /\ res.kind = "Err"
              /\ res.err = v.err
              /\ res.steps = <<"verify_handshake">>
        /\ v.kind = "Ok" =>
              /\ res.kind = "Ok"
              /\ res.resp = handshake_response(req).resp
              /\ res.resp # <<>>
              /\ res.steps = <<"verify_handshake", "handshake_response">>

\* handshake returned the error of a request that carries a key, so that
\* a response could have been built
C3_Witness ==
    /\ CallsOf("handshake") # {}
    /\ Last.fn = "handshake"
    /\ Last.res.kind = "Err"
    /\ HasKey

----------------------------------------------------------------------------
\* C4: for a request that passes verify_handshake, handshake_response
\* yields status 101, Upgrade: websocket and a Sec-WebSocket-Accept that is
\* the key hash of exactly the request's Sec-WebSocket-Key value.
C4_AcceptOfKey ==
    \A i \in CallsOf("handshake_response") :
        verify_handshake(req).kind = "Ok" =>
            LET res == calls[i].res IN
            /\ res.kind = "Ok"
            /\ res.resp # <<>>
            /\ res.resp[1].status = 101
            /\ UPGRADE \in DOMAIN res.resp[1].headers
            /\ res.resp[1].headers[UPGRADE] = "websocket"
            /\ SEC_WEBSOCKET_ACCEPT \in DOMAIN res.resp[1].headers
            /\ res.resp[1].headers[SEC_WEBSOCKET_ACCEPT]
                  = [base64_sha1 |-> req.headers[SEC_WEBSOCKET_KEY] \o WS_GUID]

\* a response was built for a verified request whose key is not text
C4_Witness ==
    /\ CallsOf("handshake_response") # {}
    /\ verify_handshake(req).kind = "Ok"
    /\ req.headers[SEC_WEBSOCKET_KEY] = KEY_binary
    /\ Last.res.kind = "Ok"

----------------------------------------------------------------------------
\* C5: the response built by handshake_response carries Upgrade: websocket
\* and Sec-WebSocket-Accept and no transfer-encoding header.
C5_NoTransferEncoding ==
    \A i \in CallsOf("handshake_response") :
        calls[i].res.kind = "Ok" =>
            /\ UPGRADE \in DOMAIN calls[i].res.resp[1].headers
            /\ SEC_WEBSOCKET_ACCEPT \in DOMAIN calls[i].res.resp[1].headers
            /\ TRANSFER_ENCODING \notin DOMAIN calls[i].res.resp[1].headers

----------------------------------------------------------------------------
\* C6: the mapping from HandshakeError to a failure response is total and
\* fixed: GetMethodRequired gives 405 with Allow: GET, every other variant
\* gives 400 with a reason that no other variant has; none gives 101 or
\* another success status.
C6_ErrorResponse ==
    \A i \in CallsOf("error_response") :
        LET e == calls[i].res.steps[1]
            resp == calls[i].res.resp[1]
        IN
        /\ e \in HandshakeErrors
        /\ resp.status >= 400
        /\ e = "GetMethodRequired" =>
              /\ resp.status = 405
              /\ ALLOW \in DOMAIN resp.headers
              /\ resp.headers[ALLOW] = "GET"
        /\ e # "GetMethodRequired" =>
              /\ resp.status = 400
              /\ resp.reason # ""
              /\ \A e2 \in HandshakeErrors \ {e} :
                    error_response(e2).reason # resp.reason

\* the response of a 400 variant was produced
C6_Witness ==
    /\ CallsOf("error_response") # {}
    /\ Last.fn = "error_response"
    /\ Last.res.steps = <<"BadWebsocketKey">>
    /\ Last.res.resp[1].status = 400

----------------------------------------------------------------------------
\* C7: handshake_response on a request without Sec-WebSocket-Key aborts the
\* call (no HandshakeError, no 101 response); it validates nothing and reads
\* only the key, so with a key present it builds a 101 response even when
\* verify_handshake rejects the request.
C7_ResponsePrecondition ==
    \A i \in CallsOf("handshake_response") :
        LET res == calls[i].res IN
        /\ ~HasKey =>
              /\ res.kind = "Panic"
              /\ res.err = <<>>
              /\ res.resp = <<>>
        /\ HasKey =>
              /\ res.kind = "Ok"
              /\ res.resp[1].status = 101
              /\ res = handshake_response(
                          [method |-> "GET",
                           headers |-> [n \in {SEC_WEBSOCKET_KEY} |->
                                           req.headers[SEC_WEBSOCKET_KEY]],
                           upgrade |-> TRUE])

\* handshake_response was called on a request that has no key
C7_Witness ==
    /\ CallsOf("handshake_response") # {}
    /\ Last.fn = "handshake_response"
    /\ ~HasKey
    /\ Last.res.kind = "Panic"

----------------------------------------------------------------------------
\* C8: handshake always ends with an ordinary result, Ok(response) or
\* Err(HandshakeError); the missing-key abort of handshake_response cannot
\* be reached through handshake.
C8_HandshakeNeverAborts ==
    \A i \in CallsOf("handshake") :
        LET res == calls[i].res IN
        /\ res.kind \in {"Ok", "Err"}
        /\ res.kind = "Err" => res.err # <<>> /\ res.err[1] \in HandshakeErrors
        /\ res.kind = "Ok" => res.resp # <<>>
        /\ "handshake_response" \in { res.steps[j] : j \in 1..Len(res.steps) }
              => HasKey

\* handshake was called on a request that lacks only the key
C8_Witness ==
    /\ CallsOf("handshake") # {}
    /\ Last.fn = "handshake"
    /\ ~HasKey
    /\ FailingChecks = {6}
    /\ Last.res.err = <<"BadWebsocketKey">>

----------------------------------------------------------------------------
\* C9: for a GET request verify_handshake returns NoWebsocketUpgrade exactly
\* when the Upgrade header is absent, or cannot be read as text, or does not
\* contain "websocket" once lower-cased; "WebSocket", "WEBSOCKET" and
\* "h2c, websocket" pass the check, "keep-alive" and "test" fail it, and an
\* unreadable value is answered like a missing header, not by an abort.
C9_UpgradeHeaderCheck ==
    \A i \in CallsOf("verify_handshake") :
        req.method = "GET" =>
            LET res == calls[i].res
                refused == res.err = <<"NoWebsocketUpgrade">>
            IN
            /\ refused <=>
                  \/ ~HasUpgradeHeader
                  \/ ~Readable(req.headers[UPGRADE])
                  \/ ~ContainsIgnoreCase(req.headers[UPGRADE],
                                         WEBSOCKET_PATTERN)
            /\ res.kind # "Panic"
            /\ HasUpgradeHeader =>
                  /\ req.headers[UPGRADE]
                        \in {UPG_WebSocket, UPG_WEBSOCKET, UPG_h2c_websocket}
                        => ~refused
                  /\ req.headers[UPGRADE]
                        \in {UPG_keep_alive, UPG_test, UPG_unreadable}
                        => refused

\* a mixed-case Upgrade value passed the check
C9_Witness ==
    /\ CallsOf("verify_handshake") # {}
    /\ req.method = "GET"
    /\ HasUpgradeHeader
    /\ req.headers[UPGRADE] = UPG_WebSocket
    /\ Last.fn = "verify_handshake"
    /\ Last.res.err # <<"NoWebsocketUpgrade">>

----------------------------------------------------------------------------
\* C10: the three functions leave the request as it was (method, headers
\* and upgrade flag), and a repeated call on the same request returns what
\* the first call returned.
C10_RepeatedCallsAgree ==
    \A i, j \in 1..Len(calls) :
        calls[i].fn = calls[j].fn => calls[i].res = calls[j].res

====
